---------------------------- MODULE Spec2Model ----------------------------
(***************************************************************************)
(* The reactive query pipeline of src/app.py: six Solara reactive          *)
(* variables, the three use_effect procedures of Page and the two          *)
(* user-facing controls (country Select, population SliderRangeInt).       *)
(*                                                                         *)
(* Host model.  Page is rendered by Solara on one render thread.  A render *)
(* evaluates the dependency list of every use_effect; after the render the *)
(* effects whose dependencies differ from those of the previous render run *)
(* one after the other, in declaration order, each to its end.  A reactive *)
(* write made by an effect marks the page for another render, which        *)
(* happens when the running pass is over.  A widget event is handled when  *)
(* the render thread is free.  An exception that leaves an effect is kept  *)
(* by the host and the remaining effects of the pass still run.            *)
(*                                                                         *)
(* Every call that reaches DuckDB (get_db_connection, con.sql) is a step   *)
(* of its own, with both outcomes: it returns, or it raises.               *)
(*                                                                         *)
(* Populations are counted in slider steps (step=1000, src/app.py:213) and *)
(* scaled down; LIMIT and the default maximum are scaled with them.        *)
(* latitude and longitude are carried by no decision of the pipeline and   *)
(* are left out of the rows.                                               *)
(***************************************************************************)
EXTENDS Integers, Sequences, FiniteSets, TLC

\* SQL NULL in the population column / a None result of MAX(population)
NULL == 0 - 1

\* LIMIT 500 (src/app.py:101), scaled
LIMIT == 2

\* solara.reactive(1000000) / solara.reactive((0, 1000000)) (src/app.py:21-23), scaled
DefaultMax == 3

\* bound: connections left open by failed runs that the model keeps count of
MaxLeaked == 1

\* bound: cap of the counter of load_filtered_data queries per logical change
MaxRuns == 3

\* the lexicographic (ORDER BY country) order of the country names in use
CountryOrder == <<"Atlantis", "France", "USA", "Vatican">>

Row(n, c, p) == [name |-> n, country |-> c, population |-> p]

\* contents of DB_SOURCE: a dataset with "USA" (more than LIMIT rows, equal
\* populations at the cut-off), a country whose populations are all NULL and
\* one whose maximum is 0; a dataset without "USA"; an empty dataset
DataMain ==
    { Row("NewYork", "USA", 2), Row("LosAngeles", "USA", 1),
      Row("Chicago", "USA", 1),
      Row("Paris", "France", 1), Row("Lyon", "France", NULL),
      Row("Void", "Atlantis", NULL), Row("Holy", "Vatican", 0) }

DataNoUSA == { Row("Paris", "France", 1), Row("Holy", "Vatican", 0) }

Datasets == { DataMain, DataNoUSA, {} }

\* the dataset of the specification's scenario, unscaled
DataExample ==
    { Row("NewYork", "USA", 8419000), Row("LA", "USA", 3980000),
      Row("Paris", "France", 2148000) }

VARIABLES
    db,                         \* the rows behind DB_SOURCE
    all_countries,              \* reactive: CountryList
    selected_country,           \* reactive: SelectedCountry
    population_range,           \* reactive: PopulationRange <<min, max>>
    max_population_in_country,  \* reactive: MaxPopulationInCountry
    data_df,                    \* reactive: ResultSet (sequence of rows)
    is_loading,                 \* reactive: IsLoading
    mounted,                    \* Page has been rendered once
    dirty,                      \* a reactive changed since the last render
    deps,                       \* dependency values seen by the last render
    queue,                      \* effects of the running pass still to run
    pc,                         \* position inside the running effect
    country, pop_min, pop_max,  \* locals of the running effect
    max_pop,                    \* local of update_country_stats: the MAX(population) read
    open,                       \* DuckDB connections currently open
    runs,                       \* load_filtered_data queries since the last logical change
    rangeOwner,                 \* selected_country when population_range was last written
    queried,                    \* arguments of the query whose rows data_df holds
    lfdExit,                    \* exit path of the latest load_filtered_data run
    ucsExit,                    \* exit path of the latest update_country_stats run since the last user write
    raised,                     \* some DataSource call has raised
    lastWrite                   \* what the latest user write changed

reactives == <<all_countries, selected_country, population_range,
               max_population_in_country, data_df, is_loading>>
host      == <<mounted, dirty, deps, queue, pc>>
locals    == <<country, pop_min, pop_max, max_pop>>
ghosts    == <<runs, rangeOwner, queried, lfdExit, ucsExit, raised, lastWrite>>
vars      == <<db, reactives, host, locals, open, ghosts>>

---------------------------------------------------------------------------
\* ---- the three queries ----

Min2(a, b) == IF a <= b THEN a ELSE b

\* SELECT DISTINCT country ... ORDER BY country
ListCountries(d) ==
    SelectSeq(CountryOrder, LAMBDA c : \E r \in d : r.country = c)

\* SELECT MAX(population) ... WHERE country = c: NULL rows are skipped, and
\* the aggregate of no row is NULL
MaxPopulation(d, c) ==
    LET ps == { r.population : r \in { x \in d : x.country = c /\ x.population # NULL } }
    IN  IF ps = {} THEN NULL ELSE CHOOSE m \in ps : \A p \in ps : p <= m

\* the test written as `if max_pop is not None:`
TruthyNotNone(m) == m # NULL

\* `if max_pop:` - None and 0 are both falsy
Truthy(m) == m # NULL /\ m # 0

\* the bounds taken as exclusive (population > lo AND population < hi)
BetweenExclusive(p, lo, hi) == p # NULL /\ lo < p /\ p < hi

\* population BETWEEN lo AND hi: inclusive, never true of NULL
Between(p, lo, hi) == p # NULL /\ lo <= p /\ p <= hi

\* WHERE country = c AND population BETWEEN lo AND hi
Matching(d, c, lo, hi) ==
    { r \in d : r.country = c /\ Between(r.population, lo, hi) }

\* ORDER BY population DESC
OrderedDesc(s) ==
    \A i \in 1..Len(s) : \A j \in 1..Len(s) :
        i < j => s[i].population >= s[j].population

\* LIMIT applied before ORDER BY: any n rows are kept
LimitedAnyRows(m, n) ==
    { k \in SUBSET m : Cardinality(k) = Min2(Cardinality(m), n) }

\* the rows a LIMIT n may keep: n rows (all of them if fewer), none smaller
\* than a row left out
Limited(m, n) ==
    { k \in SUBSET m :
        /\ Cardinality(k) = Min2(Cardinality(m), n)
        /\ \A r \in k : \A x \in m \ k : x.population <= r.population }

\* every result the filtered query may return: SQL fixes neither the order of
\* rows of equal population nor which of them a LIMIT keeps
FilteredCities(d, c, lo, hi) ==
    UNION { { s \in [1..Cardinality(k) -> k] :
                /\ \A i \in 1..Len(s) : \A j \in 1..Len(s) : i # j => s[i] # s[j]
                /\ OrderedDesc(s) }
            : k \in Limited(Matching(d, c, lo, hi), LIMIT) }

\* pd.DataFrame()
EmptyFrame == << >>

---------------------------------------------------------------------------
\* ---- Page ----

Effects == <<"load_country_list", "update_country_stats", "load_filtered_data">>

\* update_country_stats declared with the range among its dependencies
DepsNowRangeInStats ==
    [ load_country_list    |-> << >>,
      update_country_stats |-> <<selected_country, population_range>>,
      load_filtered_data   |-> <<selected_country, population_range>> ]

\* dependencies=[...] of the three use_effect calls, evaluated by a render
DepsNow ==
    [ load_country_list    |-> << >>,
      update_country_stats |-> <<selected_country>>,
      load_filtered_data   |-> <<selected_country, population_range>> ]

Idle == pc = "idle" /\ queue = << >>

Quiescent == Idle /\ ~dirty /\ mounted

\* the values the SliderRangeInt can deliver: min=0, max=max_population_in_country
SliderValues(m) ==
    { <<lo, hi>> \in (0..m) \X (0..m) : lo <= hi }

Init ==
    /\ db \in Datasets
    /\ all_countries = << >>
    /\ selected_country = ""
    /\ population_range = <<0, DefaultMax>>
    /\ max_population_in_country = DefaultMax
    /\ data_df = EmptyFrame
    /\ is_loading = FALSE
    /\ mounted = FALSE
    /\ dirty = TRUE
    /\ deps = DepsNow
    /\ queue = << >>
    /\ pc = "idle"
    /\ country = ""
    /\ pop_min = 0
    /\ pop_max = 0
    /\ max_pop = NULL
    /\ open = 0
    /\ runs = 0
    /\ rangeOwner = ""
    /\ queried = << >>
    /\ lfdExit = "none"
    /\ ucsExit = "none"
    /\ raised = FALSE
    /\ lastWrite = "none"

\* a render of Page: every effect on the first render, later the effects
\* whose dependency values changed since the previous render
Page ==
    /\ Idle
    /\ dirty
    /\ queue' = SelectSeq(Effects, LAMBDA e : ~mounted \/ deps[e] # DepsNow[e])
    /\ deps' = DepsNow
    /\ mounted' = TRUE
    /\ dirty' = FALSE
    /\ UNCHANGED <<db, reactives, pc, locals, open, ghosts>>

---------------------------------------------------------------------------
\* ---- get_db_connection ----

\* duckdb.connect raises; or it returns and install_extension/load_extension
\* raises, the connection object being dropped unclosed; or all three return
ConnOutcomes == {"ok", "connect_failed", "extension_failed"}

\* connections the call leaves open
Opened(o) == IF o = "connect_failed" THEN 0 ELSE 1

CanConnect(o) == o = "extension_failed" => open < MaxLeaked

\* the running effect returns, or an exception leaves it: the host goes on
\* to the next effect of the pass
EndEffect ==
    /\ pc' = "idle"
    /\ queue' = Tail(queue)
    /\ country' = ""
    /\ pop_min' = 0
    /\ pop_max' = 0
    /\ max_pop' = NULL

Starts(e) == pc = "idle" /\ queue # << >> /\ Head(queue) = e

\* the early return left out
NoCountryNever(c) == FALSE

\* `if not country: return` (lines 61 and 86)
NoCountry(c) == c = ""

---------------------------------------------------------------------------
\* ---- load_country_list ----

\* the default taken as the first country, "USA" listed or not
DefaultCountryFirst(list, current) ==
    IF list # << >> THEN list[1] ELSE current

\* the default taken without the membership test of line 50
DefaultCountryAlwaysUSA(list, current) == "USA"

\* the default selection: "USA", else the first country, else no write
DefaultCountry(list, current) ==
    IF \E i \in 1..Len(list) : list[i] = "USA" THEN "USA"
    ELSE IF list # << >> THEN list[1]
    ELSE current

\* selected_country.set(v) on a plain solara.reactive: the value is stored
\* as given, whatever all_countries holds
ReactiveSet(current, v) == v

\* line 43: con = get_db_connection(), inside the try
lcl_connect ==
    /\ Starts("load_country_list")
    /\ \E o \in ConnOutcomes :
        /\ CanConnect(o)
        /\ open' = open + Opened(o)
        /\ raised' = (raised \/ o # "ok")
        /\ IF o = "ok"
           THEN pc' = "lcl_query" /\ UNCHANGED <<queue, locals>>
           ELSE EndEffect
    /\ UNCHANGED <<lastWrite, db, reactives, mounted, dirty, deps, runs, rangeOwner, queried,
                   lfdExit, ucsExit>>

\* lines 45-54: the query returns and the list and the selection are
\* published, then con.close(); or line 55: the query raises, and the
\* handler leaves the connection open
lcl_query ==
    /\ pc = "lcl_query"
    /\ \/ LET list == ListCountries(db)
              sel  == DefaultCountry(list, selected_country)
          IN  /\ all_countries' = list
              /\ selected_country' = ReactiveSet(selected_country, sel)
              /\ dirty' = (dirty \/ list # all_countries \/ sel # selected_country)
              /\ runs' = IF sel # selected_country THEN 0 ELSE runs
              /\ open' = open - 1
              /\ UNCHANGED raised
       \/ /\ open <= MaxLeaked
          /\ raised' = TRUE
          /\ UNCHANGED <<all_countries, selected_country, dirty, runs, open>>
    /\ EndEffect
    /\ UNCHANGED <<lastWrite, db, population_range, max_population_in_country, data_df,
                   is_loading, mounted, deps, rangeOwner, queried, lfdExit, ucsExit>>

---------------------------------------------------------------------------
\* ---- update_country_stats ----

\* the range reset one step past the maximum
ResetRangePastMaximum(m) == <<0, m + 1>>

\* the range update_country_stats publishes for a maximum m (line 75)
ResetRange(m) == <<0, m>>

\* lines 60-63: read the selection, return if it is empty, else
\* get_db_connection(), outside the try: its exception leaves the effect
ucs_connect ==
    /\ Starts("update_country_stats")
    /\ IF NoCountry(selected_country)
       THEN EndEffect /\ ucsExit' = "no_country" /\ UNCHANGED <<open, raised>>
       ELSE \E o \in ConnOutcomes :
            /\ CanConnect(o)
            /\ open' = open + Opened(o)
            /\ raised' = (raised \/ o # "ok")
            /\ IF o = "ok"
               THEN /\ pc' = "ucs_query"
                    /\ country' = selected_country
                    /\ ucsExit' = "none"
                    /\ UNCHANGED <<queue, pop_min, pop_max, max_pop>>
               ELSE EndEffect /\ ucsExit' = "connect_failed"
    /\ UNCHANGED <<lastWrite, db, reactives, mounted, dirty, deps, runs, rangeOwner, queried,
                   lfdExit>>

\* lines 66-73: the query returns; a truthy maximum is published (line 73);
\* a falsy one, or a raising query (line 76), goes to finally: con.close()
ucs_query ==
    /\ pc = "ucs_query"
    /\ \/ LET m == MaxPopulation(db, country)
          IN  /\ UNCHANGED raised
              /\ IF Truthy(m)
                 THEN /\ max_population_in_country' = m
                      /\ dirty' = (dirty \/ m # max_population_in_country)
                      /\ max_pop' = m
                      /\ pc' = "ucs_range"
                      /\ UNCHANGED <<queue, country, pop_min, pop_max, open, ucsExit>>
                 ELSE /\ open' = open - 1
                      /\ EndEffect
                      /\ ucsExit' = "skipped"
                      /\ UNCHANGED <<max_population_in_country, dirty>>
       \/ /\ open' = open - 1
          /\ EndEffect
          /\ ucsExit' = "query_failed"
          /\ raised' = TRUE
          /\ UNCHANGED <<max_population_in_country, dirty>>
    /\ UNCHANGED <<lastWrite, db, all_countries, selected_country, population_range, data_df,
                   is_loading, mounted, deps, runs, rangeOwner, queried, lfdExit>>

\* line 75: the range is reset; line 79: con.close()
ucs_range ==
    /\ pc = "ucs_range"
    /\ population_range' = ResetRange(max_pop)
    /\ dirty' = (dirty \/ ResetRange(max_pop) # population_range)
    /\ rangeOwner' = country
    /\ ucsExit' = "published"
    /\ open' = open - 1
    /\ EndEffect
    /\ UNCHANGED <<lastWrite, db, all_countries, selected_country, max_population_in_country,
                   data_df, is_loading, mounted, deps, runs, queried, lfdExit, raised>>

---------------------------------------------------------------------------
\* ---- load_filtered_data ----

\* lines 83-88: read the selection and the range, return if the selection
\* is empty, else is_loading.set(True)
lfd_start ==
    /\ Starts("load_filtered_data")
    /\ IF NoCountry(selected_country)
       THEN EndEffect /\ UNCHANGED <<is_loading, dirty, lfdExit>>
       ELSE /\ country' = selected_country
            /\ pop_min' = population_range[1]
            /\ pop_max' = population_range[2]
            /\ is_loading' = TRUE
            /\ dirty' = (dirty \/ ~is_loading)
            /\ lfdExit' = "none"
            /\ pc' = "lfd_connect"
            /\ UNCHANGED <<queue, max_pop>>
    /\ UNCHANGED <<lastWrite, db, all_countries, selected_country, population_range,
                   max_population_in_country, data_df, mounted, deps, open,
                   runs, rangeOwner, queried, ucsExit, raised>>

\* line 91: get_db_connection(), outside the try: its exception leaves the
\* effect before the try/finally is entered
lfd_connect ==
    /\ pc = "lfd_connect"
    /\ \E o \in ConnOutcomes :
        /\ CanConnect(o)
        /\ open' = open + Opened(o)
        /\ raised' = (raised \/ o # "ok")
        /\ IF o = "ok"
           THEN pc' = "lfd_query" /\ UNCHANGED <<queue, locals, lfdExit>>
           ELSE EndEffect /\ lfdExit' = "connect_failed"
    /\ UNCHANGED <<lastWrite, db, reactives, mounted, dirty, deps, runs, rangeOwner, queried,
                   ucsExit>>

\* lines 95-104: the query returns and its rows are published; or lines
\* 105-107: it raises and an empty frame is published
lfd_query ==
    /\ pc = "lfd_query"
    /\ \/ \E s \in FilteredCities(db, country, pop_min, pop_max) :
            /\ data_df' = s
            /\ queried' = <<country, pop_min, pop_max>>
            /\ lfdExit' = "success"
            /\ UNCHANGED raised
       \/ /\ data_df' = EmptyFrame
          /\ queried' = << >>
          /\ lfdExit' = "query_failed"
          /\ raised' = TRUE
    /\ runs' = Min2(runs + 1, MaxRuns)
    /\ dirty' = TRUE
    /\ pc' = "lfd_finally"
    /\ UNCHANGED <<lastWrite, db, all_countries, selected_country, population_range,
                   max_population_in_country, is_loading, mounted, deps, queue,
                   locals, open, rangeOwner, ucsExit>>

\* lines 108-110: con.close(); is_loading.set(False)
lfd_finally ==
    /\ pc = "lfd_finally"
    /\ open' = open - 1
    /\ is_loading' = FALSE
    /\ dirty' = (dirty \/ is_loading)
    /\ EndEffect
    /\ UNCHANGED <<db, all_countries, selected_country, population_range,
                   max_population_in_country, data_df, mounted, deps, ghosts>>

---------------------------------------------------------------------------
\* ---- the two controls ----

\* solara.Select(value=selected_country, values=all_countries.value)
SelectCountry(c) ==
    /\ Quiescent
    /\ \E i \in 1..Len(all_countries) : all_countries[i] = c
    /\ selected_country' = ReactiveSet(selected_country, c)
    /\ dirty' = (c # selected_country)
    /\ runs' = IF c # selected_country THEN 0 ELSE runs
    /\ ucsExit' = "none"
    /\ lastWrite' = IF c # selected_country THEN "country" ELSE "same"
    /\ UNCHANGED <<db, all_countries, population_range, max_population_in_country,
                   data_df, is_loading, mounted, deps, queue, pc, locals, open,
                   rangeOwner, queried, lfdExit, raised>>

\* solara.SliderRangeInt(min=0, max=max_population_in_country.value,
\* value=population_range)
SlideRange(v) ==
    /\ Quiescent
    /\ v \in SliderValues(max_population_in_country)
    /\ population_range' = v
    /\ dirty' = (v # population_range)
    /\ runs' = IF v # population_range THEN 0 ELSE runs
    /\ rangeOwner' = selected_country
    /\ ucsExit' = "none"
    /\ lastWrite' = IF v # population_range THEN "range" ELSE "same"
    /\ UNCHANGED <<db, all_countries, selected_country, max_population_in_country,
                   data_df, is_loading, mounted, deps, queue, pc, locals, open,
                   queried, lfdExit, raised>>

---------------------------------------------------------------------------
Next ==
    \/ Page
    \/ lcl_connect
    \/ lcl_query
    \/ ucs_connect
    \/ ucs_query
    \/ ucs_range
    \/ lfd_start
    \/ lfd_connect
    \/ lfd_query
    \/ lfd_finally
    \/ \E c \in {CountryOrder[i] : i \in 1..Len(CountryOrder)} : SelectCountry(c)
    \/ \E v \in SliderValues(DefaultMax) : SlideRange(v)

Spec == Init /\ [][Next]_vars

---------------------------------------------------------------------------
\* ---- the filtered query alone ----
\* load_filtered_data run once on every dataset, every country name (one in
\* no dataset included) and every range, ordered or not

QueryCountries == {"USA", "France", "Atlantis", "Vatican", "Nowhere"}

QueryRanges == ((0..DefaultMax) \X (0..DefaultMax)) \cup {<<0, 8000000>>}

InitQuery ==
    /\ db \in Datasets \cup {DataExample}
    /\ all_countries = ListCountries(db)
    /\ selected_country \in QueryCountries
    /\ population_range \in QueryRanges
    /\ max_population_in_country = DefaultMax
    /\ data_df = EmptyFrame
    /\ is_loading = FALSE
    /\ mounted = TRUE
    /\ dirty = FALSE
    /\ deps = DepsNow
    /\ queue = <<"load_filtered_data">>
    /\ pc = "idle"
    /\ country = ""
    /\ pop_min = 0
    /\ pop_max = 0
    /\ max_pop = NULL
    /\ open = 0
    /\ runs = 0
    /\ rangeOwner = selected_country
    /\ queried = << >>
    /\ lfdExit = "none"
    /\ ucsExit = "none"
    /\ raised = FALSE
    /\ lastWrite = "none"

NextQuery ==
    \/ lfd_start
    \/ lfd_connect
    \/ lfd_query
    \/ lfd_finally

SpecQuery == InitQuery /\ [][NextQuery]_vars

---------------------------------------------------------------------------
\* ---- properties ----

InLoadFilteredData == pc \in {"lfd_connect", "lfd_query", "lfd_finally"}

Rows(df) == { df[i] : i \in 1..Len(df) }

\* C1: staleness suppression - when the pipeline has come to rest (no effect
\* pending or running, no render due) after any sequence of user changes and
\* query completions, ResultSet holds no row of a country other than
\* SelectedCountry
C1_RestsOnSelectedCountry ==
    Quiescent => \A r \in Rows(data_df) : r.country = selected_country

\* C2: whenever IsLoading is false, every record of ResultSet has the
\* current SelectedCountry and a population inside the current
\* PopulationRange (stated for the runs in which no DataSource call raised)
C2_LoadedMatchesSelection ==
    (~raised /\ ~is_loading) =>
        \A r \in Rows(data_df) :
            /\ r.country = selected_country
            /\ population_range[1] <= r.population
            /\ r.population <= population_range[2]

\* C3: a load_filtered_data run never pairs its country with a
\* PopulationRange that was written while another country was selected
\* (stated for the runs in which no DataSource call raised)
C3_QueryPairsOwnRange ==
    (~raised /\ InLoadFilteredData) => rangeOwner = country

\* C4: one logical change (a user write that changes SelectedCountry or
\* PopulationRange, or the initial selection) causes at most one
\* load_filtered_data query (stated for the runs in which no DataSource
\* call raised)
C4_OneQueryPerChange == ~raised => runs <= 1

\* C5: once a load_filtered_data run that set IsLoading has ended, on any
\* exit path, IsLoading is false, and after a failed run ResultSet is empty
C5_RunEndsLoaded ==
    (~InLoadFilteredData /\ lfdExit # "none") =>
        /\ ~is_loading
        /\ lfdExit # "success" => data_df = EmptyFrame

RangeWithinMaximum ==
    /\ 0 <= population_range[1]
    /\ population_range[1] <= population_range[2]
    /\ population_range[2] <= max_population_in_country

\* C6 as stated: in every reachable state, the states between the two
\* writes of update_country_stats included, 0 <= min <= max <=
\* MaxPopulationInCountry
C6_RangeWithinMaximumAlways == RangeWithinMaximum

\* C6 amended: 0 <= min <= max <= MaxPopulationInCountry in every reachable
\* state except between the two writes of update_country_stats (line 73
\* done, line 75 not yet)
C6_RangeWithinMaximumAtRest == pc # "ucs_range" => RangeWithinMaximum

\* a user slider write (min moved off 0) under a maximum that
\* update_country_stats has lowered below the default
C6_Witness ==
    /\ Quiescent
    /\ max_population_in_country < DefaultMax
    /\ population_range[1] > 0

\* C7: maxPopulation(c) >= 0 and, right after an update_country_stats run
\* for c whose DataSource calls returned, MaxPopulationInCountry =
\* maxPopulation(c) and PopulationRange = (0, maxPopulation(c)), 0 included
\* (a NULL maximum standing for the fallback, the previous maximum)
C7_BoundsFollowMaximum ==
    (/\ ~raised
     /\ pc = "idle"
     /\ queue = <<"load_filtered_data">>
     /\ ucsExit \in {"published", "skipped"}) =>
        LET m  == MaxPopulation(db, selected_country)
            mp == IF m = NULL THEN max_population_in_country ELSE m
        IN  /\ mp >= 0
            /\ max_population_in_country = mp
            /\ population_range = <<0, mp>>

\* C8: MaxPopulationInCountry is never set to NULL or 0, and an
\* update_country_stats run whose MAX(population) query returns NULL leaves
\* MaxPopulationInCountry (the previous maximum, or the default) and
\* PopulationRange as they were
C8_NullKeepsMaximum ==
    [][ /\ max_population_in_country' # NULL
        /\ max_population_in_country' # 0
        /\ (/\ pc = "ucs_query"
            /\ MaxPopulation(db, country) = NULL
            /\ ucsExit' # "query_failed") =>
               /\ max_population_in_country' = max_population_in_country
               /\ population_range' = population_range ]_vars

\* a country whose populations are all NULL, selected after the user has
\* narrowed the range under the maximum of the country before
C8_Witness ==
    /\ Quiescent
    /\ selected_country = "Atlantis"
    /\ ucsExit = "skipped"
    /\ max_population_in_country = 2
    /\ population_range = <<1, 2>>

\* the rows of the dataset that a query for <<c, lo, hi>> must match
Wanted(q) ==
    { r \in db : /\ r.country = q[1]
                 /\ r.population # NULL
                 /\ q[2] <= r.population
                 /\ r.population <= q[3] }

\* C9: the rows published for a query (c, min, max) all have country c and
\* min <= population <= max, and are all the matching rows when no more
\* than LIMIT match
C9_ResultIsTheFilter ==
    queried # << >> =>
        /\ \A r \in Rows(data_df) :
              /\ r.country = queried[1]
              /\ queried[2] <= r.population
              /\ r.population <= queried[3]
        /\ Cardinality(Wanted(queried)) <= LIMIT =>
              /\ Rows(data_df) = Wanted(queried)
              /\ Len(data_df) = Cardinality(Wanted(queried))

\* the scenario of the specification: USA, (0, 8000000) yields [LA]
C9_Witness ==
    /\ db = DataExample
    /\ queried = <<"USA", 0, 8000000>>
    /\ data_df = << Row("LA", "USA", 3980000) >>

\* C10: ResultSet has at most LIMIT records, is sorted non-increasing by
\* population, and when more than LIMIT rows match it holds LIMIT rows, none
\* smaller than a matching row left out
C10_BoundedSortedTop ==
    /\ Len(data_df) <= LIMIT
    /\ \A i \in 1..(Len(data_df) - 1) :
          data_df[i].population >= data_df[i + 1].population
    /\ (queried # << >> /\ Cardinality(Wanted(queried)) > LIMIT) =>
          /\ Len(data_df) = LIMIT
          /\ \A x \in Wanted(queried) \ Rows(data_df) :
                \A r \in Rows(data_df) : x.population <= r.population

\* more rows match than LIMIT, and the rows kept differ in population
C10_Witness ==
    /\ queried # << >>
    /\ Cardinality(Wanted(queried)) > LIMIT
    /\ Len(data_df) = LIMIT
    /\ data_df[1].population > data_df[LIMIT].population

\* C11: with no further user change the pipeline comes to rest, and where
\* it rests IsLoading is false and ResultSet is a result of
\* filteredCities(SelectedCountry, PopulationRange) for the current values
\* (the empty frame of line 107 being granted to a query that raised)
C11_RestsOnCurrentResult ==
    Quiescent =>
        /\ ~is_loading
        /\ \/ data_df \in FilteredCities(db, selected_country,
                                         population_range[1], population_range[2])
           \/ lfdExit = "query_failed" /\ data_df = EmptyFrame

\* C12: whenever no effect is executing, no DuckDB connection is open
C12_NoConnectionAtRest == pc = "idle" => open = 0

\* C13: no update_country_stats run is ended by an exception that leaves
\* the effect
C13_BoundsFailureIsCaught == ucsExit # "connect_failed"


InList(list, v) == \E i \in 1..Len(list) : list[i] = v

\* C14 as stated: selected_country is empty or a member of all_countries,
\* and writing a value absent from all_countries leaves selected_country as
\* it was
C14_AbsentWriteIgnored ==
    /\ selected_country = "" \/ InList(all_countries, selected_country)
    /\ \A v \in QueryCountries :
          ~InList(all_countries, v) =>
              ReactiveSet(selected_country, v) = selected_country

\* C14: in every reachable state selected_country is empty or a member of
\* all_countries (its writers, load_country_list and the Select, write
\* members only; the store itself validates nothing)
C14_SelectedIsListed ==
    selected_country = "" \/ InList(all_countries, selected_country)

\* the Select has moved the selection off the default
C14_Witness ==
    /\ Quiescent
    /\ db = DataMain
    /\ selected_country = "Vatican"
    /\ InList(all_countries, selected_country)

\* position of a country name in the lexicographic order of the names
Rank(c) == CHOOSE i \in 1..Len(CountryOrder) : CountryOrder[i] = c

\* C15: a load_country_list run whose query returns leaves all_countries
\* the distinct countries of the dataset in lexicographic order, and
\* selected_country "USA" if listed, else the first of the list, else (empty
\* list) as it was
C15_ListSortedDefaultChosen ==
    [][ (pc = "lcl_query" /\ ~raised') =>
          /\ { all_countries'[i] : i \in 1..Len(all_countries') }
                = { r.country : r \in db }
          /\ \A i \in 1..Len(all_countries') : \A j \in 1..Len(all_countries') :
                i < j => Rank(all_countries'[i]) < Rank(all_countries'[j])
          /\ selected_country' =
                IF InList(all_countries', "USA") THEN "USA"
                ELSE IF Len(all_countries') > 0 THEN all_countries'[1]
                ELSE selected_country ]_vars

\* load_country_list has just published a list without "USA"
C15_Witness ==
    /\ pc = "idle"
    /\ queue = <<"update_country_stats", "load_filtered_data">>
    /\ ~raised /\ runs = 0 /\ lfdExit = "none" /\ ucsExit = "none"
    /\ db = DataNoUSA
    /\ all_countries = <<"France", "Vatican">>
    /\ selected_country = "France"

\* C16: IsLoading is true only while a load_filtered_data run is executing
C16_LoadingOnlyInFlight == is_loading => InLoadFilteredData

\* C17: a filtered query issued with the arguments of the query whose rows
\* data_df holds, over the same dataset, publishes the same rows in the same
\* order, rows of equal population included; and no step of
\* load_filtered_data changes a reactive other than data_df and is_loading
\* (stated for the runs in which no DataSource call raised)
C17_SameQuerySameResult ==
    [][ /\ (/\ ~raised'
            /\ pc = "lfd_query"
            /\ queried = <<country, pop_min, pop_max>>) => data_df' = data_df
        /\ (Starts("load_filtered_data") \/ InLoadFilteredData) =>
               UNCHANGED <<db, all_countries, selected_country, population_range,
                           max_population_in_country>> ]_vars

InUpdateCountryStats == pc \in {"ucs_query", "ucs_range"}

\* what holds in every state after the latest user write
C18_AfterWrite ==
    /\ lastWrite = "range" =>
          /\ \A i \in 1..Len(queue) : queue[i] = "load_filtered_data"
          /\ ~InUpdateCountryStats
          /\ ucsExit = "none"
          /\ (Quiescent /\ ~raised /\ selected_country # "") =>
                /\ runs = 1
                /\ queried = <<selected_country, population_range[1],
                               population_range[2]>>
    /\ (lastWrite = "country" /\ Quiescent /\ ~raised) =>
          /\ ucsExit \in {"published", "skipped"}
          /\ runs >= 1
    /\ lastWrite = "same" => Quiescent

\* what holds of every step
C18_Steps ==
    /\ (lastWrite' = "range" /\ (lastWrite # "range" \/ ~Quiescent)) =>
          UNCHANGED <<all_countries, selected_country, max_population_in_country>>
    /\ (lastWrite = "range" /\ ~Quiescent) => UNCHANGED population_range
    /\ lastWrite' = "same" => UNCHANGED <<reactives, host>>
    /\ (InList(queue', "load_country_list") /\ ~InList(queue, "load_country_list"))
          => ~mounted
    /\ mounted => mounted'

\* C18: each effect re-runs exactly when a declared dependency has changed:
\* after a user write that changes population_range alone, only
\* load_filtered_data runs, once, and all_countries, selected_country and
\* max_population_in_country stay as they were (update_country_stats
\* neither runs nor resets the range); after one that changes
\* selected_country, update_country_stats and load_filtered_data run;
\* load_country_list is scheduled by the first render only; a write of the
\* values already held schedules nothing
C18_EffectsFollowDependencies == []C18_AfterWrite /\ [][C18_Steps]_vars

\* the user has moved the slider and the pipeline has come to rest on the
\* query for the new range
C18_Witness ==
    /\ Quiescent
    /\ ~raised
    /\ lastWrite = "range"
    /\ runs = 1
    /\ population_range # <<0, max_population_in_country>>
    /\ selected_country = "USA"

\* C19 as stated: while selected_country is empty is_loading is false and
\* max_population_in_country, population_range and data_df hold their
\* initial values
C19_KeepsInitialValues ==
    selected_country = "" =>
        /\ ~is_loading
        /\ max_population_in_country = DefaultMax
        /\ population_range = <<0, DefaultMax>>
        /\ data_df = EmptyFrame

\* what holds in every state in which nothing is selected
C19_WhileEmpty ==
    selected_country = "" =>
        /\ ~is_loading
        /\ max_population_in_country = DefaultMax
        /\ data_df = EmptyFrame
        /\ ~InUpdateCountryStats
        /\ ~InLoadFilteredData
        /\ queried = << >>
        /\ runs = 0
        /\ (population_range = <<0, DefaultMax>> \/ lastWrite \in {"range", "same"})

\* C19: while selected_country is empty, a run of update_country_stats or
\* load_filtered_data changes nothing - no connection opened, no query
\* issued, is_loading never set - and max_population_in_country and data_df
\* hold their initial values, as does population_range unless the user has
\* moved the slider
C19_EmptySelectionRunsNothing ==
    /\ []C19_WhileEmpty
    /\ [][ (selected_country = "" /\
             (Starts("update_country_stats") \/ Starts("load_filtered_data")))
            => UNCHANGED <<reactives, open, raised, queried, runs>> ]_vars

\* the list failed to load, the user moved the slider, and
\* load_filtered_data has run and returned
C19_Witness ==
    /\ Quiescent
    /\ selected_country = ""
    /\ db = DataMain
    /\ lastWrite = "range"
    /\ population_range = <<1, 2>>

=============================================================================
